---- MODULE Spec2Model ----
(***************************************************************************)
(* A model of streamlit_app.py, the fee calculator and forecaster.         *)
(*                                                                         *)
(* One run of the script is one behaviour: the widgets' values (the tier   *)
(* records, total_units, cost_per_unit) are the inputs, and the script     *)
(* then sorts the tiers, walks them accumulating annual_revenue, computes  *)
(* cost and margin, reads the projection slider, builds the forecast rows  *)
(* and reports the breakeven message.                                      *)
(*                                                                         *)
(* Money is exact: a price or a cost is a whole number of currency units,  *)
(* and a frequency multiplier m is held as the integer m * FreqScale, so   *)
(* annual_revenue, total_annual_cost and annual_margin are all held as     *)
(* FreqScale times their value in the script.                              *)
(***************************************************************************)
EXTENDS Integers, Sequences, FiniteSets

VARIABLES
    tiers_data,               \* the list of tier records built by the sidebar
    total_units,              \* "Total Number of ... to Service"
    cost_per_unit,            \* "Cost per ..."
    pc,                       \* the script's position
    sorted_tiers,             \* calculate_annual_revenue's sorted copy
    i,                        \* the loop index of enumerate(sorted_tiers)
    units_in_this_tier,       \* the value of units_in_this_tier at the end of
                              \* each iteration, by sorted position
    annual_revenue,
    total_annual_cost,
    annual_margin,
    projection_period_years,  \* 0 until the slider is read
    forecast_data,            \* the rows of forecast_df
    message,                  \* which st.info/st.success/st.warning was shown
    breakeven_units           \* <<>> or <<numerator, denominator>>

vars == <<tiers_data, total_units, cost_per_unit, pc, sorted_tiers, i,
          units_in_this_tier, annual_revenue, total_annual_cost,
          annual_margin, projection_period_years, forecast_data, message,
          breakeven_units>>

----------------------------------------------------------------------------
(* Bounds of the model. *)

MaxTiers == 2
MaxUnits == 2
MaxYears == 2
NestedTiers == 3

(* The multipliers of frequency_options, each times FreqScale:             *)
(* 1, 2, 4, 12, 0.5, 1/3, 1/5.                                              *)
FreqScale == 30
frequency_options == {30, 60, 120, 360, 15, 10, 6}

(* The prices, frequencies and costs the inputs are drawn from. *)
Prices == {0, 1}
Freqs == {15, 30}
Costs == {0, 1}

Max(a, b) == IF a >= b THEN a ELSE b
Min(a, b) == IF a <= b THEN a ELSE b

Tier(lo, hi, p, f) ==
    [min_units |-> lo, max_units |-> hi, price_per_unit |-> p,
     frequency_multiplier |-> f]

TierRecords ==
    [min_units : 0..MaxUnits, max_units : 0..MaxUnits,
     price_per_unit : Prices,
     frequency_multiplier : Freqs \cap frequency_options]

(* Any tier record, max_units < min_units included: what the function      *)
(* calculate_annual_revenue accepts. A tier whose price is 0 is drawn with *)
(* the yearly frequency only: its frequency shows in no figure.            *)
AnyTiers ==
    {t \in TierRecords :
        t.price_per_unit = 0 => t.frequency_multiplier = FreqScale}

(* The tiers the sidebar can build: min_units >= 0 and, by the max widget's *)
(* min_value, max_units >= min_units.                                       *)
UITiers == {t \in AnyTiers : t.max_units >= t.min_units}

SeqsUpTo(S, n) == UNION {[1..k -> S] : k \in 1..n}

----------------------------------------------------------------------------
(* calculate_annual_revenue *)

(* sorted(tiers_data, key=lambda x: x['min_units']): a stable sort, built  *)
(* here by inserting each record after the records whose key is <= its own. *)
RECURSIVE InsertByMin(_, _)
InsertByMin(s, t) ==
    IF s = <<>> THEN <<t>>
    ELSE IF Head(s).min_units <= t.min_units
         THEN <<Head(s)>> \o InsertByMin(Tail(s), t)
         ELSE <<t>> \o s

RECURSIVE SortFrom(_, _)
SortFrom(done, rest) ==
    IF rest = <<>> THEN done
    ELSE SortFrom(InsertByMin(done, Head(rest)), Tail(rest))

(* The list left in its input order *)
Unsorted(tiers) == tiers

sorted(tiers) == SortFrom(<<>>, tiers)

(* The count without its floor of 0 *)
RawUnitsNoFloor(total, tier) ==
    Min(total, tier.max_units) - tier.min_units + 1

(* units_in_this_tier = max(0, min(total_units, tier_max) - tier_min + 1) *)
RawUnits(total, tier) ==
    Max(0, Min(total, tier.max_units) - tier.min_units + 1)

(* units_already_counted, from the tier just before in the sorted order *)
UnitsAlreadyCounted(total, prev, tier) ==
    Max(0, Min(total, prev.max_units) - tier.min_units + 1)

(* The subtraction without its floor of 0 *)
UnitsInTierNoFloor(total, st, k) ==
    IF k > 1
    THEN RawUnits(total, st[k]) - UnitsAlreadyCounted(total, st[k - 1], st[k])
    ELSE RawUnits(total, st[k])

(* The value of units_in_this_tier at the end of iteration k (1-based) *)
UnitsInTier(total, st, k) ==
    IF k > 1
    THEN Max(0, RawUnits(total, st[k])
                - UnitsAlreadyCounted(total, st[k - 1], st[k]))
    ELSE RawUnits(total, st[k])

Contribution(units, tier) ==
    units * tier.price_per_unit * tier.frequency_multiplier

RECURSIVE RevenueUpTo(_, _, _)
RevenueUpTo(total, st, k) ==
    IF k = 0 THEN 0
    ELSE RevenueUpTo(total, st, k - 1)
         + Contribution(UnitsInTier(total, st, k), st[k])

calculate_annual_revenue(total, tiers) ==
    RevenueUpTo(total, sorted(tiers), Len(tiers))

----------------------------------------------------------------------------
(* The script *)

Start(tiers, totals, costs) ==
    /\ tiers_data \in tiers
    /\ total_units \in totals
    /\ cost_per_unit \in costs
    /\ pc = "sort"
    /\ sorted_tiers = <<>>
    /\ i = 0
    /\ units_in_this_tier = <<>>
    /\ annual_revenue = 0
    /\ total_annual_cost = 0
    /\ annual_margin = 0
    /\ projection_period_years = 0
    /\ forecast_data = <<>>
    /\ message = "none"
    /\ breakeven_units = <<>>

Init == Start(SeqsUpTo(UITiers, MaxTiers), 0..(MaxUnits + 1), Costs)

SortTiers ==
    /\ pc = "sort"
    /\ sorted_tiers' = sorted(tiers_data)
    /\ i' = 0
    /\ annual_revenue' = 0
    /\ pc' = "loop"
    /\ UNCHANGED <<tiers_data, total_units, cost_per_unit, units_in_this_tier,
                   total_annual_cost, annual_margin, projection_period_years,
                   forecast_data, message, breakeven_units>>

TierStep ==
    /\ pc = "loop"
    /\ i < Len(sorted_tiers)
    /\ LET units == UnitsInTier(total_units, sorted_tiers, i + 1)
       IN /\ units_in_this_tier' = Append(units_in_this_tier, units)
          /\ annual_revenue' =
                annual_revenue + Contribution(units, sorted_tiers[i + 1])
    /\ i' = i + 1
    /\ UNCHANGED <<tiers_data, total_units, cost_per_unit, pc, sorted_tiers,
                   total_annual_cost, annual_margin, projection_period_years,
                   forecast_data, message, breakeven_units>>

CostAndMargin ==
    /\ pc = "loop"
    /\ i = Len(sorted_tiers)
    /\ total_annual_cost' = total_units * cost_per_unit * FreqScale
    /\ annual_margin' = annual_revenue - total_units * cost_per_unit * FreqScale
    /\ pc' = "slider"
    /\ UNCHANGED <<tiers_data, total_units, cost_per_unit, sorted_tiers, i,
                   units_in_this_tier, annual_revenue,
                   projection_period_years, forecast_data, message,
                   breakeven_units>>

ReadSlider ==
    /\ pc = "slider"
    /\ projection_period_years' \in 1..MaxYears
    /\ forecast_data' = <<>>
    /\ pc' = IF total_units > 0 THEN "forecast" ELSE "no_units"
    /\ UNCHANGED <<tiers_data, total_units, cost_per_unit, sorted_tiers, i,
                   units_in_this_tier, annual_revenue, total_annual_cost,
                   annual_margin, message, breakeven_units>>

NoUnits ==
    /\ pc = "no_units"
    /\ message' = "enter_units"
    /\ pc' = "done"
    /\ UNCHANGED <<tiers_data, total_units, cost_per_unit, sorted_tiers, i,
                   units_in_this_tier, annual_revenue, total_annual_cost,
                   annual_margin, projection_period_years, forecast_data,
                   breakeven_units>>

(* range(1, projection_period_years) *)
ForecastYearsShort(n) == 1..(n - 1)

(* range(1, projection_period_years + 1) *)
ForecastYears(n) == 1..n

ForecastRow(year) ==
    [Year |-> year, Revenue |-> annual_revenue, Cost |-> total_annual_cost,
     Margin |-> annual_margin]

ForecastStep ==
    /\ pc = "forecast"
    /\ Len(forecast_data) + 1 \in ForecastYears(projection_period_years)
    /\ forecast_data' =
          Append(forecast_data, ForecastRow(Len(forecast_data) + 1))
    /\ UNCHANGED <<tiers_data, total_units, cost_per_unit, pc, sorted_tiers, i,
                   units_in_this_tier, annual_revenue, total_annual_cost,
                   annual_margin, projection_period_years, message,
                   breakeven_units>>

(* The analysis without its test of annual_revenue > 0 *)
BreakevenBranchAnyRevenue(margin, revenue, cost) ==
    IF margin < 0
    THEN IF cost > 0 THEN "breakeven_point" ELSE "cost_zero"
    ELSE "profitable"

(* Which branch of the breakeven analysis runs *)
BreakevenBranch(margin, revenue, cost) ==
    IF margin < 0 /\ revenue > 0
    THEN IF cost > 0 THEN "breakeven_point" ELSE "cost_zero"
    ELSE IF margin >= 0 THEN "profitable" ELSE "cannot_calculate"

Breakeven ==
    /\ pc = "forecast"
    /\ Len(forecast_data) + 1 \notin ForecastYears(projection_period_years)
    /\ LET branch ==
              BreakevenBranch(annual_margin, annual_revenue, cost_per_unit)
       IN IF branch = "breakeven_point"
          THEN IF cost_per_unit = 0
               THEN /\ message' = "ZeroDivisionError"
                    /\ UNCHANGED breakeven_units
               ELSE /\ message' = branch
                    /\ breakeven_units' =
                          <<annual_revenue, cost_per_unit * FreqScale>>
          ELSE /\ message' = branch
               /\ UNCHANGED breakeven_units
    /\ pc' = "done"
    /\ UNCHANGED <<tiers_data, total_units, cost_per_unit, sorted_tiers, i,
                   units_in_this_tier, annual_revenue, total_annual_cost,
                   annual_margin, projection_period_years, forecast_data>>

Next ==
    \/ SortTiers
    \/ TierStep
    \/ CostAndMargin
    \/ ReadSlider
    \/ NoUnits
    \/ ForecastStep
    \/ Breakeven

Spec == Init /\ [][Next]_vars

(* The function applied to any tier list, tiers with max_units < min_units *)
(* included, billed per year.                                              *)
YearlyAnyTiers == {t \in AnyTiers : t.frequency_multiplier = FreqScale}

InitAnyTiers ==
    Start(SeqsUpTo(YearlyAnyTiers, MaxTiers), 0..(MaxUnits + 1), Costs)

SpecAnyTiers == InitAnyTiers /\ [][Next]_vars

(* The worked two-tier schedule: (0, 99, 100, per year) and                *)
(* (100, 199, 90, per year), at every total_units the schedule covers.     *)
ScenarioTiers == <<Tier(0, 99, 100, FreqScale), Tier(100, 199, 90, FreqScale)>>

InitScenario == Start({ScenarioTiers}, 0..199, Costs)

SpecScenario == InitScenario /\ [][Next]_vars

(* Lists of NestedTiers tiers the sidebar can build, billed per year. *)
YearlyUITiers == {t \in UITiers : t.frequency_multiplier = FreqScale}

InitNested ==
    Start([1..NestedTiers -> YearlyUITiers], 0..(MaxUnits + 1), Costs)

SpecNested == InitNested /\ [][Next]_vars

----------------------------------------------------------------------------
(* Properties *)

RECURSIVE SumSeq(_)
SumSeq(s) == IF s = <<>> THEN 0 ELSE Head(s) + SumSeq(Tail(s))

(* calculate_annual_revenue has returned, and cost and margin are set *)
Returned == pc = "slider"

InRange(u, tier) == tier.min_units <= u /\ u <= tier.max_units

(* The sorted tiers tile [0, max]: no gap and no overlap *)
Tiles(st) ==
    /\ st[1].min_units = 0
    /\ \A k \in 1..(Len(st) - 1) : st[k + 1].min_units = st[k].max_units + 1

Perms(n) == {f \in [1..n -> 1..n] : \A a, b \in 1..n : a # b => f[a] # f[b]}

Permuted(s, f) == [k \in 1..Len(s) |-> s[f[k]]]

(* f keeps tiers of equal min_units in their relative input order *)
KeepsTies(s, f) ==
    \A k, l \in 1..Len(s) :
        (k < l /\ s[f[k]].min_units = s[f[l]].min_units) => f[k] < f[l]

(* C1: the units allocated over all tiers sum to at most total_units. *)
C1_NoDoubleCounting ==
    Returned => SumSeq(units_in_this_tier) <= total_units

(* C2: when the tiers tile [0, max] and total_units <= max, the units      *)
(* allocated over all tiers sum to exactly total_units.                    *)
C2_FullCoverage ==
    (/\ Returned
     /\ Tiles(sorted_tiers)
     /\ total_units <= sorted_tiers[Len(sorted_tiers)].max_units)
    => SumSeq(units_in_this_tier) = total_units

(* C3: with total_units = 0 every tier is allocated 0 units, annual        *)
(* revenue and annual cost are 0, and no forecast row and no breakeven     *)
(* message is produced.                                                    *)
C3_ZeroCase ==
    (pc = "done" /\ total_units = 0)
    => /\ \A k \in 1..Len(units_in_this_tier) : units_in_this_tier[k] = 0
       /\ annual_revenue = 0
       /\ total_annual_cost = 0
       /\ forecast_data = <<>>
       /\ message = "enter_units"
       /\ breakeven_units = <<>>

(* C4: for every T1 <= total_units, no tier is allocated more units at T1  *)
(* than at total_units, and the revenue at T1 is at most the revenue at    *)
(* total_units.                                                            *)
C4_Monotonic ==
    Returned =>
        \A t1 \in 0..total_units :
            /\ \A k \in 1..Len(sorted_tiers) :
                  UnitsInTier(t1, sorted_tiers, k) <= units_in_this_tier[k]
            /\ calculate_annual_revenue(t1, tiers_data) <= annual_revenue

C4_Witness ==
    /\ Returned
    /\ Len(sorted_tiers) = 2
    /\ sorted_tiers[2].min_units <= sorted_tiers[1].max_units
    /\ sorted_tiers[2].max_units > sorted_tiers[1].max_units
    /\ total_units = sorted_tiers[2].max_units
    /\ units_in_this_tier[2] > UnitsInTier(total_units - 1, sorted_tiers, 2)
    /\ annual_revenue > calculate_annual_revenue(total_units - 1, tiers_data)

(* C5: on the worked schedule, total_units = 150 allocates 100 and 50      *)
(* units for a revenue of 14500, and total_units = 50 allocates 50 and 0   *)
(* units for a revenue of 5000.                                            *)
C5_WorkedSchedule ==
    (Returned /\ tiers_data = ScenarioTiers)
    => /\ total_units = 150
          => /\ units_in_this_tier = <<100, 50>>
             /\ annual_revenue = 14500 * FreqScale
       /\ total_units = 50
          => /\ units_in_this_tier = <<50, 0>>
             /\ annual_revenue = 5000 * FreqScale

(* C6: for any tier list, the function runs to its return, no tier is      *)
(* allocated a negative number of units, and a tier with                   *)
(* max_units < min_units is allocated 0 units and adds nothing to revenue. *)
C6_InvalidTierAllocatesZero ==
    /\ pc \in {"sort", "loop"} => ENABLED Next
    /\ \A k \in 1..Len(units_in_this_tier) :
          /\ units_in_this_tier[k] >= 0
          /\ sorted_tiers[k].max_units < sorted_tiers[k].min_units
             => /\ units_in_this_tier[k] = 0
                /\ Contribution(units_in_this_tier[k], sorted_tiers[k]) = 0
    /\ Returned => Len(units_in_this_tier) = Len(tiers_data)

C6_Witness ==
    /\ Returned
    /\ Len(sorted_tiers) = 2
    /\ sorted_tiers[1].max_units < sorted_tiers[1].min_units
    /\ sorted_tiers[1].price_per_unit > 0
    /\ total_units >= sorted_tiers[1].min_units
    /\ units_in_this_tier[1] = 0
    /\ annual_revenue > 0

(* C7: when total_units > 0 the forecast has one row per year of the       *)
(* projection period, for the years 1, 2, ... in order, and each row       *)
(* carries the same annual revenue, cost (total_units * cost_per_unit)     *)
(* and margin (revenue - cost).                                            *)
C7_ForecastReplication ==
    (pc = "done" /\ total_units > 0)
    => /\ Len(forecast_data) = projection_period_years
       /\ \A y \in 1..Len(forecast_data) :
             forecast_data[y] =
                [Year |-> y,
                 Revenue |-> calculate_annual_revenue(total_units, tiers_data),
                 Cost |-> total_units * cost_per_unit * FreqScale,
                 Margin |-> calculate_annual_revenue(total_units, tiers_data)
                            - total_units * cost_per_unit * FreqScale]

C7_Witness ==
    /\ pc = "done"
    /\ total_units > 0
    /\ projection_period_years >= 2
    /\ Len(forecast_data) = projection_period_years
    /\ forecast_data[2].Revenue > 0
    /\ forecast_data[2].Cost > 0
    /\ forecast_data[2].Margin # 0

(* C8: the breakeven figure annual_revenue / cost_per_unit is reported     *)
(* exactly when total_units > 0, annual_margin < 0, annual_revenue > 0     *)
(* and cost_per_unit > 0; the division never runs with cost_per_unit = 0,  *)
(* and the "cost per unit is zero" branch is never taken.                  *)
C8_GuardedBreakeven ==
    /\ message = "breakeven_point"
       <=> /\ pc = "done"
           /\ total_units > 0
           /\ annual_margin < 0
           /\ annual_revenue > 0
           /\ cost_per_unit > 0
    /\ breakeven_units # <<>>
       <=> /\ message = "breakeven_point"
           /\ breakeven_units = <<annual_revenue, cost_per_unit * FreqScale>>
    /\ message # "ZeroDivisionError"
    /\ message # "cost_zero"

C8_Witness ==
    /\ pc = "done"
    /\ message = "breakeven_point"
    /\ breakeven_units = <<annual_revenue, cost_per_unit * FreqScale>>
    /\ annual_margin < 0
    /\ annual_revenue > 0

(* C9: the tier at sorted position k is allocated as many units as there   *)
(* are unit positions u, min_units <= u <= min(total_units, max_units),    *)
(* that lie in the range of no tier earlier in the sorted order.           *)
C9_HighWaterMark ==
    Returned =>
        \A k \in 1..Len(sorted_tiers) :
            units_in_this_tier[k] =
                Cardinality(
                    {u \in sorted_tiers[k].min_units
                           ..Min(total_units, sorted_tiers[k].max_units) :
                        \A j \in 1..(k - 1) : ~InRange(u, sorted_tiers[j])})

(* C10: every reordering of the input list that keeps tiers of equal       *)
(* min_units in their relative order (every reordering, when the           *)
(* min_units are pairwise distinct) gives the same sorted list, the same   *)
(* allocation for each tier and the same revenue; and the input list is    *)
(* never changed.                                                          *)
C10_SameForReorderings ==
    Returned =>
        \A f \in Perms(Len(tiers_data)) :
            KeepsTies(tiers_data, f) =>
                LET p == Permuted(tiers_data, f)
                IN /\ sorted(p) = sorted_tiers
                   /\ \A k \in 1..Len(p) :
                         UnitsInTier(total_units, sorted(p), k)
                            = units_in_this_tier[k]
                   /\ calculate_annual_revenue(total_units, p) = annual_revenue

C10_OrderIndependent ==
    [](C10_SameForReorderings) /\ [][tiers_data' = tiers_data]_vars

C10_Witness ==
    /\ pc = "done"
    /\ Len(tiers_data) = 2
    /\ tiers_data[1].min_units > tiers_data[2].min_units
    /\ tiers_data[1].max_units > tiers_data[2].max_units
    /\ tiers_data[1].price_per_unit # tiers_data[2].price_per_unit
    /\ sorted_tiers = <<tiers_data[2], tiers_data[1]>>
    /\ units_in_this_tier[1] > 0
    /\ units_in_this_tier[2] > 0
    /\ annual_revenue > 0

====
